---- MODULE Spec2Model ----
(***************************************************************************)
(* Scalable NonZero Indicator (src/snzi.hpp): the three tree variants      *)
(* no_contention_handling_snzi, semi_contention_handling_snzi and          *)
(* full_contention_handling_snzi, their constructors, the node and root    *)
(* protocols, and well-formed clients calling Arrive / Depart / Query.     *)
(*                                                                         *)
(* One step of a thread is one access to shared memory (an atomic load,    *)
(* store, fetch_add, fetch_sub or compare_exchange); the thread-local      *)
(* computation that follows an access, up to the next access, belongs to   *)
(* the same step.  All atomics are sequentially consistent (the default    *)
(* memory order of std::atomic, which is what the source uses).            *)
(*                                                                         *)
(* counter_type is std::uint64_t.  A counter value v is held as its two's  *)
(* complement representative: v >= 0 stands for v and v < 0 stands for     *)
(* 2^64 + v.  With the few operations a behaviour holds, + 1 and - 1 on    *)
(* the representatives are + 1 and - 1 modulo 2^64, and the tests the code *)
(* makes (== 0, == 1, != 0) read the same on both.                         *)
(***************************************************************************)
EXTENDS Integers, Sequences, FiniteSets, TLC

VARIABLES
    param,            \* the constructor call: [variant, K, H, T] and the clients' budget
    phase,            \* "new" | "ready" | "invalid_argument"
    arity,            \* size_type arity
    total_nodes,      \* size_type total_nodes
    total_leaf_nodes, \* size_type total_leaf_nodes
    threads_per_leaf, \* size_type threads_per_leaf
    total_threads,    \* size_type total_threads
    parentOf,         \* others[i].parent, i in 1 .. total_nodes - 1
    X,                \* X[0] is root.X, X[i] is others[i].X
    announce,         \* others[i].announce (semi and full variants)
    cont,             \* each thread's contention_status (full variant)
    stack,            \* each thread's call stack of node-level frames, innermost last
    op,               \* each thread's facade call in flight: "idle" | "arrive" | "depart"
    held,             \* each thread's completed Arrives whose Depart is not yet invoked
    arrives,          \* number of Arrive calls invoked so far, all threads together
    ver,              \* history: the successful CASes on each node's counter so far, in
                      \* the runs that count them (param.track)
    surplus,          \* history: for each non-root node, the Arrives its operations have
                      \* issued on its parent minus the Departs they have issued there
    qret,             \* what the last Query returned: "none" | "true" | "false"
    tries,            \* an exponential_backoff object (src/backoff.hpp): its field tries
    calls             \* history: what each call on that object did, oldest first

vars == <<param, phase, arity, total_nodes, total_leaf_nodes, threads_per_leaf,
          total_threads, parentOf, X, announce, cont, stack, op, held, arrives,
          ver, surplus, qret, tries, calls>>

treeVars == <<arity, total_nodes, total_leaf_nodes, threads_per_leaf, total_threads, parentOf>>

backoffVars == <<tries, calls>>

snziVars == <<param, phase, treeVars, X, announce, cont, stack, op, held, arrives, ver, surplus, qret>>

-----------------------------------------------------------------------------
(* Bounds of the model and constants of the program *)

\* Arrive calls the clients of one run make, all threads together
MaxArrives == 4

\* the same, in the runs checked for termination
LiveArrives == 3

\* the same, in the runs of strictly alternating clients
AltArrives == 5

\* the same, in the runs that keep the record of the CASes
AbaArrives == 3

\* calls made on the exponential_backoff object
MaxCalls == 7

\* static const std::size_t MAX_TRIES = 16;
MAX_TRIES == 16

\* arities, heights and thread counts of the trees built to check the index arithmetic
MaxK == 4

MaxH == 3

MaxT == 9

DelayAmount == 16

MaxContentionNumFailures == 5

Variants == {"no", "semi", "full"}

\* <<K, H, T>>: the (K, H) pairs of the benchmark driver that stay small, some T each
LegalShapes == {<<2, 0, 1>>, <<2, 0, 2>>, <<2, 1, 2>>, <<2, 1, 3>>, <<2, 2, 2>>, <<2, 2, 3>>,
                <<4, 1, 2>>}

\* <<K, H, T>> with K < 2, and with T = 0
OddShapes == {<<0, 0, 1>>, <<0, 1, 2>>, <<1, 0, 1>>, <<1, 1, 2>>, <<1, 2, 3>>, <<2, 0, 0>>, <<2, 1, 0>>}

\* the shapes of the runs checked for termination
\* trees of the runs of strictly alternating clients, and one the constructor rejects
AltShapes == {<<2, 0, 2>>, <<2, 1, 2>>, <<2, 1, 3>>, <<2, 2, 2>>, <<1, 0, 1>>}

\* trees of the runs that keep the record of the CASes
AbaShapes == {<<2, 0, 2>>, <<2, 1, 3>>, <<2, 2, 2>>, <<1, 0, 1>>}

LiveShapes == {<<2, 0, 2>>, <<2, 1, 3>>, <<2, 2, 2>>, <<1, 0, 1>>}

\* every <<K, H, T>> with 2 <= K <= MaxK, H <= MaxH, 1 <= T <= MaxT
WideShapes == {<<K, H, T>> : K \in 2 .. MaxK, H \in 0 .. MaxH, T \in 1 .. MaxT}

\* thread identifiers: tid in [0, T) for the largest T constructed
Tids == 0 .. 2

-----------------------------------------------------------------------------
(* Size and index arithmetic *)

RECURSIVE pow_int(_, _)
pow_int(b, e) == IF e = 0 THEN 1 ELSE b * pow_int(b, e - 1)

nodes_count_one_level_short(K, H) == (pow_int(K, H) - 1) \div (K - 1)

nodes_count(K, H) == (pow_int(K, H + 1) - 1) \div (K - 1)

leaves_count(K, H) == pow_int(K, H)

\* static_cast<size_type>(std::ceil((double)T/(double)total_leaf_nodes)), then 1 if it is 0
threads_per_leaf_unguarded(T, L) == (T + L - 1) \div L

threads_per_leaf_floor(T, L) ==
    LET r == T \div L
    IN  IF r = 0 THEN 1 ELSE r

threads_per_leaf_of(T, L) ==
    LET r == (T + L - 1) \div L
    IN  IF r = 0 THEN 1 ELSE r

parent_of_id(id) == id \div arity

parent(id) == (id - 1) \div arity

get_leaf_from_start(tid) == (tid \div threads_per_leaf) % total_leaf_nodes

get_leaf_for_thread(tid) ==
    total_nodes - total_leaf_nodes + ((tid \div threads_per_leaf) % total_leaf_nodes)

RejectsKUpToTwo(K) == K <= 2

\* the constructor's test that throws std::invalid_argument
RejectsK(K) == K < 2

root_QueryAboveOne == X[0] > 1

root_Query == X[0] # 0

root_ArriveStore(x) == 1

\* root_node::Arrive: X.fetch_add(1), from the value x
root_Arrive(x) == x + 1

\* root_node::Depart: X.fetch_sub(1), from the value x
root_Depart(x) == x - 1

-----------------------------------------------------------------------------
(* Frames of the node-level calls *)

HasAnnounce == param.variant \in {"semi", "full"}

ArrivePcNoPropagation(oldx, pArrInv) == "A_cas"

\* where a node Arrive goes after it has read oldx (the load, or a failed CAS):
\* the test  if (!oldx && !pArrInv)  at the head of the do-loop
ArrivePc(oldx, pArrInv) ==
    IF oldx = 0 /\ ~pArrInv
    THEN (IF HasAnnounce THEN "A_ann" ELSE "A_parr")
    ELSE "A_cas"

\* where a node Depart goes after it has read oldx: the semi and full variants
\* store announce := false first when oldx == 1
DepartPc(oldx) == IF HasAnnounce /\ oldx = 1 THEN "D_clear" ELSE "D_cas"

Frame(pc, node, oldx, pArrInv, i, nf) ==
    [pc |-> pc, node |-> node, oldx |-> oldx, pArrInv |-> pArrInv, i |-> i, num_failures |-> nf,
     ver |-> ver[node]]

\* node::Arrive entered: pArrInv = false; oldx = X.load()
ArriveFrame(n) == Frame(ArrivePc(X[n], FALSE), n, X[n], FALSE, 0, 0)

\* node::Depart entered: oldx = X.load()
DepartFrame(n) == Frame(DepartPc(X[n]), n, X[n], FALSE, 0, 0)

\* root_node::ArriveDirectly entered: oldx = X.load(); num_failures = 0
DirectFrame == Frame("AD_cas", 0, X[0], FALSE, 0, 0)

Top(t) == stack[t][Len(stack[t])]

Below(t) == SubSeq(stack[t], 1, Len(stack[t]) - 1)

At(t, pc) == Len(stack[t]) > 0 /\ Top(t).pc = pc

\* a successful CAS on node n's counter goes on record
Modified(n) == IF param.track THEN [ver EXCEPT ![n] = @ + 1] ELSE ver

CompensatesAlways(pArrInv, oldx) == pArrInv

CompensatesNever(pArrInv, oldx) == FALSE

\* the compensation test after the arrive CAS:  if (pArrInv && oldx)
Compensates(pArrInv, oldx) == pArrInv /\ oldx # 0

DepartPropagatesOnZero(oldx) == oldx = 0

\* the propagation test after the depart CAS:  if (oldx == 1)
DepartPropagates(oldx) == oldx = 1

\* the innermost call returns.  A caller is always a node Arrive waiting for its
\* parent's Arrive: it sets pArrInv = true and goes on to its CAS.
Return(t) ==
    LET rest == Below(t)
    IN  IF Len(rest) = 0 THEN rest
        ELSE [rest EXCEPT ![Len(rest)] = [@ EXCEPT !.pArrInv = TRUE, !.pc = "A_cas"]]

\* the facade call of thread t is over when its last frame returns
Finish(t, stk) ==
    /\ stack' = [stack EXCEPT ![t] = stk]
    /\ IF Len(stk) = 0
       THEN /\ op' = [op EXCEPT ![t] = "idle"]
            /\ held' = [held EXCEPT ![t] = IF op[t] = "arrive" THEN @ + 1 ELSE @]
       ELSE UNCHANGED <<op, held>>

-----------------------------------------------------------------------------
(* Construction *)

\* clients make ops Arrive calls in all, a thread at most nest of them in a row
\* with no Depart of its own in between; track: the runs that keep the record ver
InitClients(shapes, ops, nest, track) ==
    /\ param \in [variant : Variants, shape : shapes, ops : {ops}, nest : {nest},
                  track : {track}]
    /\ phase = "new"
    /\ arity = 0 /\ total_nodes = 0 /\ total_leaf_nodes = 0
    /\ threads_per_leaf = 0 /\ total_threads = 0
    /\ parentOf = << >>
    /\ X = << >>
    /\ announce = << >>
    /\ cont = [t \in Tids |-> [use_snzi_in_arrive |-> FALSE, use_snzi_in_depart |-> FALSE,
                               use_snzi_tree_flag |-> FALSE]]
    /\ stack = [t \in Tids |-> << >>]
    /\ op = [t \in Tids |-> "idle"]
    /\ held = [t \in Tids |-> 0]
    /\ arrives = 0
    /\ tries = 1
    /\ calls = << >>
    /\ ver = << >>
    /\ surplus = << >>
    /\ qret = "none"

InitWithNest(shapes, ops, nest) == InitClients(shapes, ops, nest, FALSE)

InitWith(shapes, ops) == InitWithNest(shapes, ops, ops)

Init == InitWith(LegalShapes \cup OddShapes, MaxArrives)

LiveInit == InitWith(LiveShapes, LiveArrives)

\* trees of every shape of the index arithmetic, used by one Arrive / Depart pair,
\* beside the runs of LiveInit
IndexInit == InitWith(WideShapes, 1) \/ LiveInit

\* clients that strictly alternate Arrive and Depart, as thread_job does
AltInit == InitWithNest(AltShapes, AltArrives, 1)

\* runs that keep the record of the CASes on every counter
AbaInit == InitClients(AbaShapes, AbaArrives, AbaArrives, TRUE)

\* the constructor throws before it computes or allocates anything
ConstructThrows ==
    /\ phase = "new"
    /\ RejectsK(param.shape[1])
    /\ phase' = "invalid_argument"
    /\ UNCHANGED <<backoffVars, param, ver, surplus, treeVars, X, announce, cont, stack, op, held, arrives, qret>>

Construct ==
    /\ phase = "new"
    /\ ~RejectsK(param.shape[1])
    /\ LET K == param.shape[1]
           H == param.shape[2]
           T == param.shape[3]
           N == nodes_count(K, H)
       IN  /\ total_nodes' = N
           /\ total_leaf_nodes' = leaves_count(K, H)
           /\ threads_per_leaf' = threads_per_leaf_of(T, leaves_count(K, H))
           /\ total_threads' = T
           /\ arity' = K
           /\ X' = [i \in 0 .. N - 1 |-> 0]
           /\ announce' = [i \in 1 .. N - 1 |-> FALSE]
           /\ parentOf' = [i \in 1 .. N - 1 |-> parent(i)']
           /\ ver' = [i \in 0 .. N - 1 |-> 0]
           /\ surplus' = [i \in 1 .. N - 1 |-> 0]
    /\ phase' = "ready"
    /\ UNCHANGED <<backoffVars, param, cont, stack, op, held, arrives, qret>>

-----------------------------------------------------------------------------
(* The facades: Arrive(tid), Depart(tid), Query() *)

CanCall(t) ==
    /\ phase = "ready"
    /\ t < total_threads
    /\ op[t] = "idle"

UsesTreeOnFlag(t) == param.variant # "full" \/ cont[t].use_snzi_tree_flag

UsesTreeInArrive(t) == param.variant # "full" \/ cont[t].use_snzi_in_arrive

UsesTreeInDepart(t) == param.variant # "full" \/ cont[t].use_snzi_in_depart

\* Arrive(tid) through the tree: root.Arrive() when the leaf is the root, else the
\* leaf's Arrive is entered (its first load of X)
Arrive(t) ==
    /\ CanCall(t)
    /\ arrives < param.ops
    /\ held[t] < param.nest
    /\ UsesTreeInArrive(t)
    /\ arrives' = arrives + 1
    /\ LET leaf == get_leaf_for_thread(t)
       IN  IF leaf = 0
           THEN /\ X' = [X EXCEPT ![0] = root_Arrive(@)]
                /\ held' = [held EXCEPT ![t] = @ + 1]
                /\ UNCHANGED <<stack, op>>
           ELSE /\ stack' = [stack EXCEPT ![t] = <<ArriveFrame(leaf)>>]
                /\ op' = [op EXCEPT ![t] = "arrive"]
                /\ UNCHANGED <<X, held>>
    /\ UNCHANGED <<backoffVars, param, ver, surplus, phase, treeVars, announce, cont, qret>>

\* full variant, !cont.use_snzi_in_arrive: root.ArriveDirectly(cont) is entered
ArriveDirectlyCall(t) ==
    /\ CanCall(t)
    /\ arrives < param.ops
    /\ held[t] < param.nest
    /\ ~UsesTreeInArrive(t)
    /\ arrives' = arrives + 1
    /\ stack' = [stack EXCEPT ![t] = <<DirectFrame>>]
    /\ op' = [op EXCEPT ![t] = "arrive"]
    /\ UNCHANGED <<backoffVars, param, ver, surplus, phase, treeVars, X, announce, cont, held, qret>>

\* Depart(tid) through the tree; a well-formed client has a completed Arrive to match
Depart(t) ==
    /\ CanCall(t)
    /\ held[t] > 0
    /\ UsesTreeInDepart(t)
    /\ LET leaf == get_leaf_for_thread(t)
       IN  IF leaf = 0
           THEN /\ X' = [X EXCEPT ![0] = root_Depart(@)]
                /\ UNCHANGED <<stack, op>>
           ELSE /\ stack' = [stack EXCEPT ![t] = <<DepartFrame(leaf)>>]
                /\ op' = [op EXCEPT ![t] = "depart"]
                /\ UNCHANGED X
    /\ held' = [held EXCEPT ![t] = @ - 1]
    /\ UNCHANGED <<backoffVars, param, ver, surplus, phase, treeVars, announce, cont, arrives, qret>>

EscalateAndRearm(c) ==
    IF c.use_snzi_tree_flag
    THEN [c EXCEPT !.use_snzi_in_arrive = TRUE, !.use_snzi_in_depart = TRUE,
                   !.use_snzi_tree_flag = FALSE]
    ELSE c

EscalateAlways(c) == [c EXCEPT !.use_snzi_in_arrive = TRUE, !.use_snzi_in_depart = TRUE]

\* DepartDirectly:  if (cont.use_snzi_tree_flag)
\*                     cont.use_snzi_in_arrive = cont.use_snzi_in_depart = true;
Escalate(c) ==
    IF c.use_snzi_tree_flag
    THEN [c EXCEPT !.use_snzi_in_arrive = TRUE, !.use_snzi_in_depart = TRUE]
    ELSE c

\* full variant, !cont.use_snzi_in_depart: root.DepartDirectly(cont)
DepartDirectly(t) ==
    /\ CanCall(t)
    /\ held[t] > 0
    /\ ~UsesTreeInDepart(t)
    /\ X' = [X EXCEPT ![0] = root_Depart(@)]
    /\ cont' = [cont EXCEPT ![t] = Escalate(@)]
    /\ held' = [held EXCEPT ![t] = @ - 1]
    /\ UNCHANGED <<backoffVars, param, ver, surplus, phase, treeVars, announce, stack, op, arrives, qret>>

Query ==
    /\ phase = "ready"
    /\ qret' = IF root_Query THEN "true" ELSE "false"
    /\ UNCHANGED <<backoffVars, param, ver, surplus, phase, treeVars, X, announce, cont, stack, op, held, arrives>>

-----------------------------------------------------------------------------
(* root_node::ArriveDirectly *)

\* ++num_failures; only  num_failures >= MaxContentionNumFailures  is ever read, so
\* the count stops at the threshold
CountFailure(nf) == IF nf < MaxContentionNumFailures THEN nf + 1 ELSE nf

ContendedOnce(nf) == nf >= 1

\* if (num_failures >= contention_status::MaxContentionNumFailures)
Contended(nf) == nf >= MaxContentionNumFailures

\* X.compare_exchange_weak(oldx, oldx + 1) succeeds, then the threshold test
ArriveDirectlyCas(t) ==
    /\ At(t, "AD_cas")
    /\ X[0] = Top(t).oldx
    /\ X' = [X EXCEPT ![0] = Top(t).oldx + 1]
    /\ cont' = [cont EXCEPT ![t].use_snzi_tree_flag =
                  IF Contended(Top(t).num_failures) THEN TRUE ELSE @]
    /\ Finish(t, Return(t))
    /\ UNCHANGED <<backoffVars, param, ver, surplus, phase, treeVars, announce, arrives, qret>>

\* the CAS fails, because X differs from oldx (oldx takes X's value) or spuriously
ArriveDirectlyCasFails(t) ==
    /\ At(t, "AD_cas")
    /\ stack' = [stack EXCEPT ![t][Len(stack[t])] =
                   [@ EXCEPT !.oldx = X[0], !.num_failures = CountFailure(@)]]
    /\ UNCHANGED <<backoffVars, param, ver, surplus, phase, treeVars, X, announce, cont, op, held, arrives, qret>>

-----------------------------------------------------------------------------
(* node::Arrive *)

SpinStays(i) == i

\* ++i of the announce loop
SpinNext(i) == i + 1

SetTop(t, f) == [stack EXCEPT ![t][Len(stack[t])] = f]

\* semi, full:  if (announce.load())
AnnounceLoad(t) ==
    /\ At(t, "A_ann")
    /\ stack' = SetTop(t, IF announce[Top(t).node]
                          THEN [Top(t) EXCEPT !.pc = "A_spin", !.i = 0]
                          ELSE [Top(t) EXCEPT !.pc = "A_store"])
    /\ UNCHANGED <<backoffVars, param, ver, surplus, phase, treeVars, X, announce, cont, op, held, arrives, qret>>

\* semi, full: one round of  for (i = 0; i < DelayAmount; ++i):  oldx = X.load();
\* if (oldx) { doArrive = false; break; }  backoff.backoff();
AnnounceSpin(t) ==
    /\ At(t, "A_spin")
    /\ LET f == Top(t)
           x == X[f.node]
       IN  stack' = SetTop(t,
              IF x # 0
              THEN [f EXCEPT !.oldx = x, !.ver = ver[f.node], !.pc = "A_cas"]
              ELSE [f EXCEPT !.oldx = x, !.ver = ver[f.node], !.i = SpinNext(f.i),
                             !.pc = IF SpinNext(f.i) < DelayAmount THEN "A_spin" ELSE "A_store"])
    /\ UNCHANGED <<backoffVars, param, ver, surplus, phase, treeVars, X, announce, cont, op, held, arrives, qret>>

\* semi, full:  announce.store(true)
AnnounceStore(t) ==
    /\ At(t, "A_store")
    /\ announce' = [announce EXCEPT ![Top(t).node] = TRUE]
    /\ stack' = SetTop(t, [Top(t) EXCEPT !.pc = "A_parr"])
    /\ UNCHANGED <<backoffVars, param, ver, surplus, phase, treeVars, X, cont, op, held, arrives, qret>>

\* the Arrive on the parent: root.Arrive() is one fetch_add, after which
\* pArrInv = true; others[parent].Arrive() is entered (its first load of X)
ParentArrive(t) ==
    /\ At(t, "A_parr")
    /\ LET f == Top(t)
           p == parentOf[f.node]
       IN  IF p = 0
           THEN /\ X' = [X EXCEPT ![0] = root_Arrive(@)]
                /\ stack' = SetTop(t, [f EXCEPT !.pArrInv = TRUE, !.pc = "A_cas"])
           ELSE /\ stack' = [stack EXCEPT ![t] =
                                Append(SetTop(t, [f EXCEPT !.pc = "A_wait"])[t], ArriveFrame(p))]
                /\ UNCHANGED X
    /\ surplus' = [surplus EXCEPT ![Top(t).node] = @ + 1]
    /\ UNCHANGED <<backoffVars, param, ver, phase, treeVars, announce, cont, op, held, arrives, qret>>

\* X.compare_exchange_weak(oldx, oldx + 1) succeeds; then  if (pArrInv && oldx)
ArriveCas(t) ==
    /\ At(t, "A_cas")
    /\ LET f == Top(t)
       IN  /\ X[f.node] = f.oldx
           /\ X' = [X EXCEPT ![f.node] = f.oldx + 1]
           /\ IF Compensates(f.pArrInv, f.oldx)
              THEN /\ stack' = SetTop(t, [f EXCEPT !.pc = "A_comp"])
                   /\ UNCHANGED <<op, held>>
              ELSE Finish(t, Return(t))
    /\ ver' = Modified(Top(t).node)
    /\ UNCHANGED <<backoffVars, param, surplus, phase, treeVars, announce, cont, arrives, qret>>

\* the weak CAS fails, because X differs from oldx or spuriously: oldx takes X's
\* value and the do-loop runs again
ArriveCasFails(t) ==
    /\ At(t, "A_cas")
    /\ LET f == Top(t)
       IN  stack' = SetTop(t, [f EXCEPT !.oldx = X[f.node], !.ver = ver[f.node],
                                        !.pc = ArrivePc(X[f.node], f.pArrInv)])
    /\ UNCHANGED <<backoffVars, param, ver, surplus, phase, treeVars, X, announce, cont, op, held, arrives, qret>>

\* the compensating Depart on the parent, the last statement of node::Arrive:
\* root.Depart() is one fetch_sub; others[parent].Depart() is entered in place of
\* this frame, which has nothing left to do
ArriveCompensate(t) ==
    /\ At(t, "A_comp")
    /\ LET p == parentOf[Top(t).node]
       IN  IF p = 0
           THEN /\ X' = [X EXCEPT ![0] = root_Depart(@)]
                /\ Finish(t, Return(t))
           ELSE /\ stack' = SetTop(t, DepartFrame(p))
                /\ UNCHANGED <<X, op, held>>
    /\ surplus' = [surplus EXCEPT ![Top(t).node] = @ - 1]
    /\ UNCHANGED <<backoffVars, param, ver, phase, treeVars, announce, cont, arrives, qret>>

-----------------------------------------------------------------------------
(* node::Depart *)

\* semi, full:  if (oldx == 1) announce.store(false)
AnnounceClear(t) ==
    /\ At(t, "D_clear")
    /\ announce' = [announce EXCEPT ![Top(t).node] = FALSE]
    /\ stack' = SetTop(t, [Top(t) EXCEPT !.pc = "D_cas"])
    /\ UNCHANGED <<backoffVars, param, ver, surplus, phase, treeVars, X, cont, op, held, arrives, qret>>

\* the CAS of oldx to oldx - 1 succeeds; then  if (oldx == 1)
DepartCas(t) ==
    /\ At(t, "D_cas")
    /\ LET f == Top(t)
       IN  /\ X[f.node] = f.oldx
           /\ X' = [X EXCEPT ![f.node] = f.oldx - 1]
           /\ IF DepartPropagates(f.oldx)
              THEN /\ stack' = SetTop(t, [f EXCEPT !.pc = "D_prop"])
                   /\ UNCHANGED <<op, held>>
              ELSE Finish(t, Return(t))
    /\ ver' = Modified(Top(t).node)
    /\ UNCHANGED <<backoffVars, param, surplus, phase, treeVars, announce, cont, arrives, qret>>

DepartCasWeak(x, oldx) == TRUE

\* when the Depart CAS can fail: compare_exchange_weak (no variant) also
\* spuriously, compare_exchange_strong (semi, full) only when X differs from oldx
DepartCasCanFail(x, oldx) == HasAnnounce => x # oldx

\* the CAS fails: oldx takes X's value and the do-loop runs again
DepartCasFails(t) ==
    /\ At(t, "D_cas")
    /\ LET f == Top(t)
       IN  /\ DepartCasCanFail(X[f.node], f.oldx)
           /\ stack' = SetTop(t, [f EXCEPT !.oldx = X[f.node], !.ver = ver[f.node],
                                           !.pc = DepartPc(X[f.node])])
    /\ UNCHANGED <<backoffVars, param, ver, surplus, phase, treeVars, X, announce, cont, op, held, arrives, qret>>

\* the Depart on the parent, the last statement of node::Depart
ParentDepart(t) ==
    /\ At(t, "D_prop")
    /\ LET p == parentOf[Top(t).node]
       IN  IF p = 0
           THEN /\ X' = [X EXCEPT ![0] = root_Depart(@)]
                /\ Finish(t, Return(t))
           ELSE /\ stack' = SetTop(t, DepartFrame(p))
                /\ UNCHANGED <<X, op, held>>
    /\ surplus' = [surplus EXCEPT ![Top(t).node] = @ - 1]
    /\ UNCHANGED <<backoffVars, param, ver, phase, treeVars, announce, cont, arrives, qret>>

-----------------------------------------------------------------------------
(* exponential_backoff *)

SpinsBelowCap(n) == n < MAX_TRIES

\* the test of backoff():  if (tries <= MAX_TRIES)
Spins(n) == n <= MAX_TRIES

Called(name, pauses, yielded) == [call |-> name, pauses |-> pauses, yielded |-> yielded]

\* backoff(): backoff(tries), a loop of tries pause instructions, and tries *= 2;
\* or std::this_thread::yield()
backoff ==
    /\ Len(calls) < MaxCalls
    /\ IF Spins(tries)
       THEN /\ calls' = Append(calls, Called("backoff", tries, FALSE))
            /\ tries' = tries * 2
       ELSE /\ calls' = Append(calls, Called("backoff", 0, TRUE))
            /\ tries' = tries
    /\ UNCHANGED snziVars

\* reset(): tries = 1
reset ==
    /\ Len(calls) < MaxCalls
    /\ tries' = 1
    /\ calls' = Append(calls, Called("reset", 0, FALSE))
    /\ UNCHANGED snziVars

-----------------------------------------------------------------------------
(* The system *)

Step(t) ==
    \/ Arrive(t) \/ ArriveDirectlyCall(t) \/ Depart(t) \/ DepartDirectly(t)
    \/ ArriveDirectlyCas(t) \/ ArriveDirectlyCasFails(t)
    \/ AnnounceLoad(t) \/ AnnounceSpin(t) \/ AnnounceStore(t) \/ ParentArrive(t)
    \/ ArriveCas(t) \/ ArriveCasFails(t) \/ ArriveCompensate(t)
    \/ AnnounceClear(t) \/ DepartCas(t) \/ DepartCasFails(t) \/ ParentDepart(t)

Next ==
    \/ ConstructThrows
    \/ Construct
    \/ Query
    \/ \E t \in Tids : Step(t)

Spec == Init /\ [][Next]_vars

\* every thread that can take a step eventually takes one; a weak CAS that fails
\* spuriously leaves the thread where it was, so it does not count as a step
LiveSpec == LiveInit /\ [][Next]_vars /\ \A t \in Tids : WF_vars(Step(t))

IndexSpec == IndexInit /\ [][Next]_vars

AltSpec == AltInit /\ [][Next]_vars

AbaSpec == AbaInit /\ [][Next]_vars

\* a freshly constructed exponential_backoff object and its callers
BackoffInit == InitWith({<<2, 0, 1>>}, 0)

BackoffNext == backoff \/ reset

BackoffSpec == BackoffInit /\ [][BackoffNext]_vars

-----------------------------------------------------------------------------
(* Vocabulary of the properties *)

K_ == param.shape[1]

H_ == param.shape[2]

T_ == param.shape[3]

Ready == phase = "ready"

NoOrSemi == param.variant \in {"no", "semi"}

Nodes == 0 .. total_nodes - 1

NonRoot == 1 .. total_nodes - 1

InFlight(t) == op[t] # "idle"

Quiescent == Ready /\ \A t \in Tids : ~InFlight(t)

RECURSIVE SumHeld(_)
SumHeld(S) == IF S = {} THEN 0 ELSE LET t == CHOOSE u \in S : TRUE IN held[t] + SumHeld(S \ {t})

\* every invoked Arrive has a completed matching Depart
AllMatched == Quiescent /\ \A t \in Tids : held[t] = 0

-----------------------------------------------------------------------------
(* Properties *)

\* C1: no and semi variants: whenever some thread has returned from an Arrive whose
\* matching Depart is not yet invoked, the root counter is nonzero, so Query is true
C1_NoFalseNegative ==
    (Ready /\ NoOrSemi /\ \E t \in Tids : held[t] > 0) => (X[0] > 0 /\ root_Query)

\* a thread holds an arrival while another thread on a tree of height >= 1 has taken
\* its leaf to 0 and not yet departed from the parent
C1_Witness ==
    /\ Ready /\ NoOrSemi /\ H_ >= 1
    /\ \E t, u \in Tids : t # u /\ held[t] > 0 /\ At(u, "D_prop")

\* C2: no and semi variants: whenever the root counter is nonzero some Arrive has been
\* invoked whose matching Depart has not yet returned
C2_NoFalsePositive ==
    (Ready /\ NoOrSemi /\ root_Query) => \E t \in Tids : held[t] > 0 \/ InFlight(t)

\* the root counter is nonzero only on behalf of a Depart that is still in flight
C2_Witness ==
    /\ Ready /\ NoOrSemi /\ root_Query
    /\ \A t \in Tids : held[t] = 0 /\ op[t] # "arrive"
    /\ \E t \in Tids : op[t] = "depart"

\* C3: no and semi variants: at every quiescent point Query is true exactly when
\* completed Arrives minus completed Departs is positive
C3_QuiescentConsistency ==
    (Quiescent /\ NoOrSemi) => (root_Query <=> SumHeld(Tids) > 0)

\* thread 0 holds two arrivals, thread 1 has arrived twice and departed twice
C3_Witness ==
    /\ Quiescent /\ NoOrSemi /\ H_ = 1
    /\ held[0] = 2 /\ held[1] = 0 /\ arrives = 4

\* C4: full variant: once every Arrive has its completed matching Depart, Query is
\* false and every node counter is 0
C4_FullMatchedPairs ==
    (AllMatched /\ param.variant = "full") => (~root_Query /\ \A i \in Nodes : X[i] = 0)

\* C5: no and semi variants: after all Arrive / Depart pairs have completed every
\* node counter, the root's included, is 0
C5_CountersQuiesce ==
    (AllMatched /\ NoOrSemi) => \A i \in Nodes : X[i] = 0

\* all pairs of a run on a tree of height 2 have completed
C5_Witness ==
    /\ AllMatched /\ NoOrSemi /\ H_ = 2 /\ arrives = param.ops

\* C6: semi and full variants: after all Arrive / Depart pairs have completed every
\* non-root node's announce flag is false
C6_AnnounceQuiesce ==
    (AllMatched /\ HasAnnounce) => \A i \in NonRoot : ~announce[i]

\* C7: every invoked Arrive and every invoked Depart eventually returns
C7_Termination ==
    \A t \in Tids : InFlight(t) ~> ~InFlight(t)

\* an Arrive has spun its whole announce budget, and an ArriveDirectly has failed its
\* CAS up to the escalation threshold
C7_Witness ==
    \/ \E t \in Tids : At(t, "A_spin") /\ Top(t).i = DelayAmount - 1
    \/ \E t \in Tids : At(t, "AD_cas") /\ Top(t).num_failures = MaxContentionNumFailures

\* C8: right after construction every counter is 0, every announce flag is false,
\* node i's parent index is (i - 1) div K, and Query is false
C8_InitialState ==
    (Ready /\ arrives = 0) =>
        /\ \A i \in Nodes : X[i] = 0
        /\ \A i \in NonRoot : ~announce[i] /\ parentOf[i] = (i - 1) \div K_
        /\ DOMAIN X = 0 .. nodes_count(K_, H_) - 1
        /\ ~root_Query
        /\ qret # "true"

\* a tree of height 2 is constructed and queried before any Arrive
C8_Witness ==
    Ready /\ arrives = 0 /\ H_ = 2 /\ qret = "false"

\* C9: construction with K < 2 ends in invalid-argument with nothing computed or
\* allocated, and construction with K >= 2 never does
C9_ValidatesK ==
    /\ phase = "invalid_argument" =>
          (K_ < 2 /\ X = << >> /\ announce = << >> /\ parentOf = << >> /\ total_nodes = 0)
    /\ Ready => K_ >= 2

\* K = 1 with a height of 2 has been refused
C9_Witness ==
    phase = "invalid_argument" /\ K_ = 1 /\ H_ = 2

\* C10 as stated: constructing with T = 0 and K >= 2 is rejected
C10_RejectsZeroThreads ==
    (T_ = 0 /\ K_ >= 2) => ~Ready

\* C10 as amended: constructing with T = 0 and K >= 2 succeeds, with one thread per
\* leaf and no legal tid
C10_AcceptsZeroThreads ==
    (T_ = 0 /\ K_ >= 2 /\ phase # "new") =>
        /\ Ready
        /\ threads_per_leaf = 1
        /\ total_threads = 0
        /\ \A t \in Tids : ~CanCall(t)

\* a tree of height 1 for 0 threads has been constructed
C10_Witness ==
    Ready /\ T_ = 0 /\ H_ = 1

\* C11: Query is one read of the root counter: it is enabled in every state of a
\* constructed tree whatever the threads are doing, the value it returns is
\* (root counter != 0) of the state it reads, and the step that returns a value
\* changes no counter, no announce flag, no contention_status and no thread's call
C11_QueryWaitFreeReadOnly ==
    /\ [](Ready => ENABLED Query)
    /\ [][qret' # qret =>
            /\ qret' = (IF X[0] # 0 THEN "true" ELSE "false")
            /\ UNCHANGED <<X, announce, cont, stack, op, held, arrives, treeVars>>]_vars

\* Query has returned true while an Arrive and a Depart of other threads are in flight
C11_Witness ==
    /\ qret = "true"
    /\ \E t, u \in Tids : op[t] = "arrive" /\ op[u] = "depart"

-----------------------------------------------------------------------------
(* Index arithmetic, on every constructed tree *)

LeafOffset == total_nodes - total_leaf_nodes

Leaves == LeafOffset .. total_nodes - 1

LegalTids == 0 .. total_threads - 1

\* parent applied j times to node i, through the indices the constructor stored
RECURSIVE ParentIter(_, _)
ParentIter(i, j) == IF j = 0 THEN i ELSE ParentIter(parentOf[i], j - 1)

RECURSIVE SumPowers(_, _)
SumPowers(b, e) == IF e = 0 THEN 1 ELSE b ^ e + SumPowers(b, e - 1)

\* max(1, ceil(T / L))
CeilRatio(T, L) ==
    LET c == IF T % L = 0 THEN T \div L ELSE T \div L + 1
    IN  IF c < 1 THEN 1 ELSE c

\* C12: the leaf of every legal tid lies in the last K^H indices of the node array
C12_LeafRange ==
    Ready => \A tid \in LegalTids :
                /\ nodes_count(K_, H_) - K_ ^ H_ <= get_leaf_for_thread(tid)
                /\ get_leaf_for_thread(tid) <= nodes_count(K_, H_) - 1

\* a tree of height 2 with more threads than leaves, whose last tid sits on the last leaf
C12_Witness ==
    /\ Ready /\ H_ = 2 /\ T_ > K_ ^ H_
    /\ get_leaf_for_thread(T_ - 1) = total_nodes - 1

\* C13: from every leaf, parent is a valid index strictly below the node, H
\* applications reach the root and fewer never do; K = 3, H = 2, T = 9 has
\* leaf_of(0) = 4, leaf_of(8) = 12, parent(12) = 3 and parent(3) = 0
C13_ParentChain ==
    Ready =>
        /\ \A i \in NonRoot : parentOf[i] = parent(i) /\ parentOf[i] \in Nodes /\ parentOf[i] < i
        /\ \A leaf \in Leaves :
              /\ ParentIter(leaf, H_) = 0
              /\ \A j \in 0 .. H_ - 1 : ParentIter(leaf, j) # 0
        /\ param.shape = <<3, 2, 9>> =>
              /\ get_leaf_for_thread(0) = 4 /\ get_leaf_for_thread(8) = 12
              /\ parentOf[12] = 3 /\ parentOf[3] = 0

\* the tree K = 3, H = 2, T = 9 has been constructed
C13_Witness ==
    Ready /\ param.shape = <<3, 2, 9>>

\* C14: nodes_count(K, H) = (K^(H+1) - 1) / (K - 1) = 1 + K + ... + K^H,
\* leaves_count(K, H) = K^H and pow_int(b, e) = b^e; K = 3, H = 2 gives 13 and 9
C14_SizeArithmetic ==
    Ready =>
        /\ total_nodes = SumPowers(K_, H_)
        /\ total_nodes * (K_ - 1) = K_ ^ (H_ + 1) - 1
        /\ total_leaf_nodes = K_ ^ H_
        /\ Cardinality(DOMAIN X) = total_nodes
        /\ \A e \in 0 .. H_ + 1 : pow_int(K_, e) = K_ ^ e
        /\ (K_ = 3 /\ H_ = 2) => (total_nodes = 13 /\ total_leaf_nodes = 9)

\* the largest tree of the bounds has been constructed
C14_Witness ==
    Ready /\ K_ = MaxK /\ H_ = MaxH

\* C15: with L leaves and r = max(1, ceil(T / L)), tid goes to leaf offset
\* floor(tid / r), which is below L; no leaf receives more than r threads; the leaf
\* index does not decrease with tid; T <= L gives distinct tids distinct leaves;
\* 4 leaves and 8 threads give {0,1}, {2,3}, {4,5}, {6,7}
C15_LinearAssignment ==
    Ready =>
        LET L == K_ ^ H_
            r == CeilRatio(T_, L)
            off(tid) == get_leaf_for_thread(tid) - LeafOffset
        IN  /\ threads_per_leaf = r
            /\ \A tid \in LegalTids : off(tid) = tid \div r /\ tid \div r < L
            /\ \A leaf \in Leaves :
                  Cardinality({tid \in LegalTids : get_leaf_for_thread(tid) = leaf}) <= r
            /\ \A a, b \in LegalTids : a <= b => off(a) <= off(b)
            /\ T_ <= L => \A a, b \in LegalTids : a # b => off(a) # off(b)
            /\ (L = 4 /\ T_ = 8) => \A tid \in LegalTids : off(tid) = tid \div 2

\* 4 leaves and 8 threads: tids 6 and 7 share the last leaf
C15_Witness ==
    /\ Ready /\ total_leaf_nodes = 4 /\ T_ = 8
    /\ get_leaf_for_thread(6) = total_nodes - 1 /\ get_leaf_for_thread(7) = total_nodes - 1

-----------------------------------------------------------------------------
(* The full-contention variant: routing and escalation *)

\* the step is thread t's call of the facade Arrive / Depart
CallsArrive(t) ==
    /\ op[t] = "idle"
    /\ arrives' = arrives + 1
    /\ (op'[t] = "arrive" \/ held'[t] = held[t] + 1)

CallsDepart(t) == op[t] = "idle" /\ held'[t] = held[t] - 1

\* thread t is inside root.ArriveDirectly
InDirect(t) == Len(stack[t]) = 1 /\ stack[t][1].pc = "AD_cas"

NonRootUntouched ==
    /\ \A n \in NonRoot : X'[n] = X[n]
    /\ announce' = announce

\* C16: in the full variant, Arrive(tid, cont) with cont.use_snzi_in_arrive false
\* enters root.ArriveDirectly and nothing else: every step of the call leaves all
\* non-root counters and announce flags alone and stays in ArriveDirectly until it
\* returns; with the flag true it enters the Arrive of the leaf of tid (the root's
\* fetch_add when that leaf is 0).  Depart(tid, cont) with cont.use_snzi_in_depart
\* false is root.DepartDirectly alone (one decrement of the root, no node entered);
\* with the flag true it enters the Depart of the leaf of tid.
C16_FullRouting ==
    [][\A t \in Tids : (phase = "ready" /\ param.variant = "full") =>
        LET leaf == get_leaf_for_thread(t)
        IN  /\ (CallsArrive(t) /\ ~cont[t].use_snzi_in_arrive) =>
                /\ stack'[t] = <<Frame("AD_cas", 0, X[0], FALSE, 0, 0)>>
                /\ X' = X /\ announce' = announce
            /\ (InDirect(t) /\ stack'[t] # stack[t]) =>
                /\ NonRootUntouched
                /\ \/ InDirect(t)' /\ X' = X
                   \/ /\ stack'[t] = << >>
                      /\ X' = [X EXCEPT ![0] = @ + 1]
                      /\ held'[t] = held[t] + 1
            /\ (CallsArrive(t) /\ cont[t].use_snzi_in_arrive) =>
                IF leaf = 0
                THEN X' = [X EXCEPT ![0] = @ + 1] /\ stack'[t] = << >>
                ELSE /\ Len(stack'[t]) = 1 /\ stack'[t][1].node = leaf
                     /\ stack'[t][1].pc \in {"A_ann", "A_parr", "A_cas"}
                     /\ X' = X
            /\ (CallsDepart(t) /\ ~cont[t].use_snzi_in_depart) =>
                /\ X' = [X EXCEPT ![0] = @ - 1]
                /\ NonRootUntouched
                /\ stack'[t] = << >> /\ op'[t] = "idle"
            /\ (CallsDepart(t) /\ cont[t].use_snzi_in_depart) =>
                IF leaf = 0
                THEN X' = [X EXCEPT ![0] = @ - 1] /\ stack'[t] = << >>
                ELSE /\ Len(stack'[t]) = 1 /\ stack'[t][1].node = leaf
                     /\ stack'[t][1].pc \in {"D_clear", "D_cas"}
                     /\ X' = X]_vars

\* one thread is inside ArriveDirectly while an escalated thread is inside the
\* Arrive of its leaf, and some Depart has gone each way
C16_Witness ==
    /\ Ready /\ param.variant = "full"
    /\ \E t, u \in Tids :
          /\ ~cont[t].use_snzi_in_arrive /\ InDirect(t)
          /\ cont[u].use_snzi_in_arrive /\ cont[u].use_snzi_in_depart
          /\ op[u] = "arrive" /\ Len(stack[u]) > 0
          /\ stack[u][1].node = get_leaf_for_thread(u)
          /\ stack[u][1].node # 0

ContFlags == {"use_snzi_in_arrive", "use_snzi_in_depart", "use_snzi_tree_flag"}

\* the step is a step of thread t's own Arrive or Depart
OwnStep(t) == stack'[t] # stack[t] \/ held'[t] # held[t]

\* C17: in the full variant a flag of a thread's contention_status that is true is
\* true after every step, and a contention_status changes only in a step of its
\* own thread's Arrive or Depart, which changes no other thread's status, stack
\* or balance; a thread on the direct path is routed by its own status alone.
C17_EscalationOneWay ==
    [][\A t \in Tids :
        /\ \A f \in ContFlags : cont[t][f] => cont'[t][f]
        /\ cont'[t] # cont[t] =>
              /\ param.variant = "full"
              /\ OwnStep(t)
              /\ \A u \in Tids \ {t} :
                    cont'[u] = cont[u] /\ stack'[u] = stack[u] /\ held'[u] = held[u]
        /\ (OwnStep(t) /\ \E u \in Tids \ {t} : cont[u].use_snzi_in_arrive) =>
              (CallsArrive(t) /\ ~cont[t].use_snzi_in_arrive => InDirect(t)')]_vars

\* a thread fully escalated went on to arrive and depart through the tree, while
\* another thread's status is still all false
C17_Witness ==
    /\ Ready /\ param.variant = "full"
    /\ \E t, u \in Tids :
          /\ \A f \in ContFlags : cont[t][f]
          /\ \A f \in ContFlags : ~cont[u][f]
          /\ op[t] = "depart" /\ Len(stack[t]) > 0
          /\ held[u] > 0

-----------------------------------------------------------------------------
(* Trees of height zero *)

\* C18: with H = 0 the tree is the root alone and every tid has leaf 0; in the no-
\* and semi-contention variants no call is ever in progress between steps, the
\* root counter equals completed Arrives minus completed Departs, there is no
\* non-root counter or announce flag, and a call of Arrive (Depart) is one step
\* that adds (subtracts) one at the root and changes nothing else of the tree.
C18_HeightZero ==
    /\ [](Ready /\ H_ = 0 =>
            /\ total_nodes = 1 /\ total_leaf_nodes = 1
            /\ \A tid \in 0 .. MaxT : get_leaf_for_thread(tid) = 0
            /\ NoOrSemi =>
                  /\ \A t \in Tids : stack[t] = << >> /\ op[t] = "idle"
                  /\ DOMAIN X = {0} /\ DOMAIN announce = {}
                  /\ X[0] = SumHeld(Tids))
    /\ [][(Ready /\ H_ = 0 /\ NoOrSemi) =>
            \A t \in Tids :
               /\ CallsArrive(t) =>
                     X' = [X EXCEPT ![0] = @ + 1] /\ announce' = announce
               /\ CallsDepart(t) =>
                     X' = [X EXCEPT ![0] = @ - 1] /\ announce' = announce
               /\ X' # X => \E u \in Tids : CallsArrive(u) \/ CallsDepart(u)]_vars

\* two threads of a height-zero tree are present after four Arrives and two Departs
C18_Witness ==
    /\ Ready /\ H_ = 0 /\ NoOrSemi
    /\ arrives = 4 /\ X[0] = 2
    /\ \A t \in {0, 1} : held[t] = 1

-----------------------------------------------------------------------------
(* Presence and the order of propagation *)

\* a counter_type value above zero: the counters are unsigned, so every value
\* but 0, the wrapped 2^64 - 1 (held as -1) included
Positive(x) == x # 0

\* C19: in the no- and semi-contention variants, in every reachable state, a
\* non-root node whose counter is above zero has a parent whose counter is above
\* zero, no counter has wrapped below zero, and so the root counter is above
\* zero whenever any counter is.
C19_Presence ==
    (Ready /\ NoOrSemi) =>
        /\ \A n \in NonRoot : Positive(X[n]) => Positive(X[parentOf[n]])
        /\ \A n \in Nodes : X[n] >= 0
        /\ (\E n \in Nodes : Positive(X[n])) => Positive(X[0])

\* a tree of height two with a leaf, its parent and the root all above zero while
\* a Depart is in progress
C19_Witness ==
    /\ Ready /\ NoOrSemi /\ H_ = 2
    /\ \E n \in NonRoot :
          /\ parentOf[n] # 0
          /\ X[n] > 0 /\ X[parentOf[n]] > 0 /\ X[0] > 0
    /\ \E t \in Tids : op[t] = "depart"

\* the step is thread t's successful Depart CAS on a non-root node, from 1 to 0
ZeroingStep(t) ==
    /\ At(t, "D_cas") /\ stack'[t] # stack[t]
    /\ X[Top(t).node] = 1 /\ X'[Top(t).node] = 0

\* C20 as stated: when a Depart takes a non-root counter from 1 to 0, the Depart
\* on the parent has been issued already, so none is left to do once the 0 is
\* visible.
C20_ParentDepartFirst ==
    [][\A t \in Tids : ZeroingStep(t) => ~At(t, "D_prop")']_vars

\* C20: a Depart takes a non-root counter from 1 to 0 with its CAS, in a step that
\* changes no other counter, and only then, as its next step, issues the Depart on
\* the parent: the root's fetch_sub, or the parent node's Depart entered at the
\* parent.  A successful CAS from any other value issues none.
C20_ParentDepartAfter ==
    [][\A t \in Tids :
        /\ ZeroingStep(t) =>
              /\ \A n \in Nodes \ {Top(t).node} : X'[n] = X[n]
              /\ At(t, "D_prop")' /\ Top(t)'.node = Top(t).node
        /\ (At(t, "D_cas") /\ stack'[t] # stack[t] /\ X' # X /\ X[Top(t).node] # 1) =>
              ~At(t, "D_prop")'
        /\ (At(t, "D_prop") /\ stack'[t] # stack[t]) =>
              LET p == parentOf[Top(t).node]
              IN  IF p = 0
                  THEN X' = [X EXCEPT ![0] = @ - 1]
                  ELSE /\ X' = X
                       /\ Len(stack'[t]) = Len(stack[t])
                       /\ Top(t)'.node = p
                       /\ Top(t)'.pc \in {"D_clear", "D_cas"}]_vars

\* a node's counter is 0 for all to see while its Depart has yet to depart from
\* the parent, whose counter is still above zero
C20_Witness ==
    /\ Ready
    /\ \E t \in Tids :
          /\ At(t, "D_prop")
          /\ X[Top(t).node] = 0
          /\ X[parentOf[Top(t).node]] > 0
          /\ parentOf[Top(t).node] # 0

-----------------------------------------------------------------------------
(* The node protocols, call by call *)

ArrivePcs == {"A_ann", "A_spin", "A_store", "A_parr", "A_wait", "A_cas", "A_comp"}

DepartPcs == {"D_clear", "D_cas", "D_prop"}

Depth(t) == 1 .. Len(stack[t])

\* frame k of thread t is a node Arrive before and after the step: the same call
SameArrive(t, k) ==
    /\ k <= Len(stack[t]) /\ k <= Len(stack'[t])
    /\ stack[t][k].pc \in ArrivePcs /\ stack'[t][k].pc \in ArrivePcs

\* the step is a successful CAS of thread t's innermost call
CasSucceeds(t, pc) ==
    /\ At(t, pc) /\ stack'[t] # stack[t]
    /\ X'[Top(t).node] # X[Top(t).node]

\* C21: in every variant, a node Arrive that is at its CAS with oldx = 0 has
\* pArrInv true; pArrInv turns true only when the Arrive this call has issued on
\* the parent has returned (the root's fetch_add, or the return of the parent
\* node's call); so every CAS that takes a non-root counter from 0 to 1 is made by
\* a call that has completed an Arrive on the parent before.
C21_ArriveAfterParent ==
    /\ [](Ready => \A t \in Tids : \A k \in Depth(t) :
            (stack[t][k].pc = "A_cas" /\ stack[t][k].oldx = 0) => stack[t][k].pArrInv)
    /\ [][\A t \in Tids :
            /\ (CasSucceeds(t, "A_cas") /\ X[Top(t).node] = 0) =>
                  /\ X'[Top(t).node] = 1
                  /\ Top(t).pArrInv
                  /\ surplus[Top(t).node] >= 1
            /\ \A k \in Depth(t) :
                  (SameArrive(t, k) /\ ~stack[t][k].pArrInv /\ stack'[t][k].pArrInv) =>
                     \/ /\ stack[t][k].pc = "A_parr" /\ k = Len(stack[t])
                        /\ parentOf[stack[t][k].node] = 0
                        /\ X' = [X EXCEPT ![0] = @ + 1]
                     \/ /\ stack[t][k].pc = "A_wait" /\ k = Len(stack[t]) - 1
                        /\ Len(stack'[t]) = k
                        /\ parentOf[stack[t][k].node] # 0]_vars

\* a leaf of a tree of height two is about to go from 0 to 1 in a call whose
\* Arrive on the parent node has returned
C21_Witness ==
    /\ Ready /\ H_ = 2
    /\ \E t \in Tids :
          /\ At(t, "A_cas") /\ Len(stack[t]) = 1
          /\ Top(t).oldx = 0 /\ X[Top(t).node] = 0 /\ Top(t).pArrInv
          /\ parentOf[Top(t).node] # 0 /\ X[parentOf[Top(t).node]] > 0

\* C22: a node Arrive raises its node's counter by one in exactly one step, its
\* successful CAS, after which the call attempts no other CAS; it issues an Arrive
\* on the parent only while pArrInv is false, and pArrInv never turns false again,
\* so at most once; after the successful CAS it issues a Depart on the parent
\* exactly when pArrInv is true and the CAS saw oldx != 0, so it leaves the parent
\* one up exactly when it took the node from 0 to 1; a failed CAS changes no
\* counter.
C22_ArriveCompensation ==
    /\ [](Ready => \A t \in Tids : \A k \in Depth(t) :
            stack[t][k].pc \in {"A_ann", "A_spin", "A_store", "A_parr", "A_wait"} =>
               ~stack[t][k].pArrInv)
    /\ [][\A t \in Tids :
            /\ \A k \in Depth(t) :
                  (SameArrive(t, k) /\ stack[t][k].pArrInv) => stack'[t][k].pArrInv
            /\ (At(t, "A_parr") /\ stack'[t] # stack[t]) =>
                  /\ surplus' = [surplus EXCEPT ![Top(t).node] = @ + 1]
                  /\ IF parentOf[Top(t).node] = 0
                     THEN X' = [X EXCEPT ![0] = @ + 1]
                     ELSE /\ X' = X /\ Len(stack'[t]) = Len(stack[t]) + 1
                          /\ Top(t)'.node = parentOf[Top(t).node]
                          /\ Top(t)'.pc \in ArrivePcs
            /\ (At(t, "A_cas") /\ stack'[t] # stack[t]) =>
                  IF X' # X
                  THEN /\ X' = [X EXCEPT ![Top(t).node] = @ + 1]
                       /\ surplus' = surplus
                       /\ At(t, "A_comp")' <=> (Top(t).pArrInv /\ X[Top(t).node] # 0)
                       /\ At(t, "A_comp")' => Top(t)'.node = Top(t).node
                       /\ ~At(t, "A_comp")' => Len(stack'[t]) < Len(stack[t])
                       /\ X[Top(t).node] = 0 => Top(t).pArrInv
                  ELSE /\ Len(stack'[t]) = Len(stack[t])
                       /\ Top(t)'.pc \in {"A_cas", "A_ann", "A_parr"}
                       /\ Top(t)'.pArrInv = Top(t).pArrInv
            /\ (At(t, "A_comp") /\ stack'[t] # stack[t]) =>
                  /\ surplus' = [surplus EXCEPT ![Top(t).node] = @ - 1]
                  /\ IF parentOf[Top(t).node] = 0
                     THEN /\ X' = [X EXCEPT ![0] = @ - 1]
                          /\ Len(stack'[t]) < Len(stack[t])
                     ELSE /\ X' = X /\ Len(stack'[t]) = Len(stack[t])
                          /\ Top(t)'.node = parentOf[Top(t).node]
                          /\ Top(t)'.pc \in DepartPcs
            /\ (surplus' # surplus /\ stack'[t] # stack[t]) =>
                  At(t, "A_parr") \/ At(t, "A_comp") \/ At(t, "D_prop")]_vars

\* two Arrives on the same leaf have both arrived at the root; one has taken the
\* leaf from 0 to 1 and returned, the other has made it 2 and is about to depart
\* from the root in compensation
C22_Witness ==
    /\ Ready /\ H_ = 1 /\ arrives = 2 /\ X[0] = 2
    /\ \E t, u \in Tids :
          /\ t # u
          /\ At(t, "A_comp") /\ X[Top(t).node] = 2 /\ surplus[Top(t).node] = 2
          /\ op[u] = "idle" /\ held[u] = 1
          /\ get_leaf_for_thread(u) = Top(t).node

\* C23: a node Depart lowers its node's counter by one in exactly one step, its
\* successful CAS, retried until it succeeds; when that CAS saw oldx = 1 the call
\* goes on to issue one Depart on the parent and is over, and when it saw any
\* other value the call is over at once; no other step of the call touches the
\* parent.
C23_DepartProtocol ==
    [][\A t \in Tids :
        /\ (At(t, "D_clear") /\ stack'[t] # stack[t]) =>
              /\ X' = X /\ surplus' = surplus
              /\ At(t, "D_cas")' /\ Top(t)'.node = Top(t).node
        /\ (At(t, "D_cas") /\ stack'[t] # stack[t]) =>
              /\ surplus' = surplus
              /\ IF X' # X
                 THEN /\ X' = [X EXCEPT ![Top(t).node] = @ - 1]
                      /\ X[Top(t).node] = Top(t).oldx
                      /\ IF X[Top(t).node] = 1
                         THEN /\ At(t, "D_prop")'
                              /\ Len(stack'[t]) = Len(stack[t])
                              /\ Top(t)'.node = Top(t).node
                         ELSE Len(stack'[t]) < Len(stack[t])
                 ELSE /\ Len(stack'[t]) = Len(stack[t])
                      /\ Top(t)'.node = Top(t).node
                      /\ Top(t)'.pc \in {"D_clear", "D_cas"}
        /\ (At(t, "D_prop") /\ stack'[t] # stack[t]) =>
              /\ surplus' = [surplus EXCEPT ![Top(t).node] = @ - 1]
              /\ \/ /\ parentOf[Top(t).node] = 0
                    /\ X' = [X EXCEPT ![0] = @ - 1]
                    /\ Len(stack'[t]) < Len(stack[t])
                 \/ /\ parentOf[Top(t).node] # 0
                    /\ X' = X /\ Len(stack'[t]) = Len(stack[t])
                    /\ Top(t)'.node = parentOf[Top(t).node]
                    /\ Top(t)'.pc \in {"D_clear", "D_cas"}]_vars

\* one Depart has taken its leaf from 1 to 0 and has the Depart on the parent
\* left to issue, while another is about to take its leaf from 2 to 1
C23_Witness ==
    /\ Ready
    /\ \E t, u \in Tids :
          /\ t # u
          /\ At(t, "D_prop") /\ X[Top(t).node] = 0
          /\ At(u, "D_cas") /\ Top(u).oldx = 2 /\ X[Top(u).node] = 2

-----------------------------------------------------------------------------
(* Presence announcements held at the parent *)

\* the calls in progress at node n that have issued an Arrive on the parent and
\* have neither handed it over to the counter nor taken it back: an Arrive that
\* waits for the parent or has pArrInv set, a Depart that has zeroed the counter
Announcing(n) ==
    {tk \in Tids \X (1 .. MaxH + 1) :
        /\ tk[2] <= Len(stack[tk[1]])
        /\ LET f == stack[tk[1]][tk[2]]
           IN  /\ f.node = n
               /\ \/ f.pc \in ArrivePcs /\ (f.pc = "A_wait" \/ f.pArrInv)
                  \/ f.pc = "D_prop"}

\* C24 as stated: in every reachable state the Arrives issued on the parent by
\* the operations at a non-root node exceed the Departs they issued there by at
\* most one.
C24_AtMostOneAnnouncement ==
    Ready => \A n \in NonRoot : surplus[n] <= 1

\* C24: in every reachable state the Arrives issued on the parent by the
\* operations at a non-root node exceed the Departs they issued there by at most
\* one plus the number of calls in progress at the node that have propagated and
\* not yet compensated or departed; in the no- and semi-contention variants the
\* excess is exactly that number, plus one when the node's counter is above zero,
\* so it is at most one in every quiescent state.
C24_AnnouncementsBounded ==
    Ready => \A n \in NonRoot :
        /\ surplus[n] >= 0
        /\ surplus[n] <= 1 + Cardinality(Announcing(n))
        /\ NoOrSemi =>
              surplus[n] = (IF X[n] > 0 THEN 1 ELSE 0) + Cardinality(Announcing(n))
        /\ (NoOrSemi /\ Quiescent) => surplus[n] <= 1

\* two Arrives on the same node, whose counter is still 0, have both arrived at
\* the parent
C24_Witness ==
    /\ Ready
    /\ \E n \in NonRoot :
          /\ surplus[n] = 2 /\ X[n] = 0
          /\ \E t, u \in Tids :
                /\ t # u
                /\ At(t, "A_cas") /\ Top(t).node = n /\ Top(t).pArrInv
                /\ At(u, "A_cas") /\ Top(u).node = n /\ Top(u).pArrInv

-----------------------------------------------------------------------------
(* Counter values at quiescence *)

\* node m lies in the subtree of node n
RECURSIVE InSubtree(_, _)
InSubtree(m, n) == m = n \/ (m # 0 /\ InSubtree(parentOf[m], n))

\* the threads assigned to the leaves of the subtree of node n
ThreadsUnder(n) ==
    {t \in Tids : t < total_threads /\ InSubtree(get_leaf_for_thread(t), n)}

\* completed Arrives minus invoked Departs of those threads
NetArrivals(n) == SumHeld(ThreadsUnder(n))

Children(n) == {c \in NonRoot : parentOf[c] = n}

\* C25 as stated, for the variants whose every Arrive goes through the leaves: at
\* every quiescent state each non-root node's counter, leaf or not, equals the
\* net arrivals of the threads assigned to the leaves of its subtree.
C25_CountersAreNetArrivals ==
    (Quiescent /\ NoOrSemi) => \A n \in NonRoot : X[n] = NetArrivals(n)

\* C25: at every quiescent state of the no- and semi-contention variants each
\* leaf's counter equals the net arrivals of the threads assigned to it, while a
\* non-root node that is not a leaf has a counter that is above zero exactly when
\* the net arrivals of its subtree are, and is no more than that number nor than
\* the number of its children.
C25_QuiescentCounters ==
    (Quiescent /\ NoOrSemi) =>
        \A n \in NonRoot :
            IF n \in Leaves
            THEN X[n] = NetArrivals(n)
            ELSE /\ X[n] > 0 <=> NetArrivals(n) > 0
                 /\ 0 <= X[n] /\ X[n] <= NetArrivals(n)
                 /\ X[n] <= Cardinality(Children(n))

\* quiescent tree of height two: a node between root and leaves counts 1 while
\* its subtree holds two arrivals
C25_Witness ==
    /\ Quiescent /\ NoOrSemi /\ H_ = 2
    /\ \E n \in NonRoot \ Leaves : X[n] = 1 /\ NetArrivals(n) = 2

\* C26: at every quiescent state of a no- or semi-contention tree of height at
\* least one, each leaf's counter is the number of completed Arrives minus
\* Departs of the threads mapped to it, and the counter of every node that is not
\* a leaf, the root included, is the number of its children whose counter is
\* above zero.
C26_QuiescentShape ==
    (Quiescent /\ NoOrSemi /\ H_ >= 1) =>
        \A n \in Nodes :
            IF n \in Leaves
            THEN X[n] = SumHeld({t \in Tids : t < total_threads /\ get_leaf_for_thread(t) = n})
            ELSE X[n] = Cardinality({c \in Children(n) : X[c] > 0})

\* quiescent tree of height two with both children of the root above zero, one of
\* them with both of its leaves above zero
C26_Witness ==
    /\ Quiescent /\ NoOrSemi /\ H_ = 2
    /\ X[0] = 2
    /\ \E n \in NonRoot \ Leaves : X[n] = 2
    /\ \E n \in Leaves : X[n] = 2

-----------------------------------------------------------------------------
(* root_node::ArriveDirectly and root_node::DepartDirectly, call by call *)

FullReady == Ready /\ param.variant = "full"

\* C27: a call of ArriveDirectly starts with no failure counted; each failed CAS
\* changes neither the root counter nor the status and counts one failure; the
\* successful CAS adds one to the root counter and ends the call, setting
\* use_snzi_tree_flag exactly when the call has counted at least
\* MaxContentionNumFailures = 5 failures and leaving it as it was otherwise;
\* use_snzi_in_arrive and use_snzi_in_depart are as before the call.
C27_ArriveDirectly ==
    /\ [](FullReady => \A t \in Tids :
            InDirect(t) => Top(t).num_failures \in 0 .. MaxContentionNumFailures)
    /\ [][FullReady => \A t \in Tids :
            /\ (CallsArrive(t) /\ InDirect(t)') =>
                  Top(t)'.num_failures = 0 /\ cont' = cont /\ X' = X
            /\ (InDirect(t) /\ stack'[t] # stack[t]) =>
                  IF X' # X
                  THEN /\ X' = [X EXCEPT ![0] = @ + 1]
                       /\ stack'[t] = << >> /\ held'[t] = held[t] + 1
                       /\ cont'[t].use_snzi_tree_flag =
                             (cont[t].use_snzi_tree_flag \/ Top(t).num_failures >= 5)
                       /\ cont'[t].use_snzi_in_arrive = cont[t].use_snzi_in_arrive
                       /\ cont'[t].use_snzi_in_depart = cont[t].use_snzi_in_depart
                  ELSE /\ InDirect(t)' /\ cont' = cont
                       /\ Top(t)'.num_failures =
                             (IF Top(t).num_failures < 5 THEN Top(t).num_failures + 1 ELSE 5)
            /\ (~cont[t].use_snzi_tree_flag /\ cont'[t].use_snzi_tree_flag) =>
                  InDirect(t) /\ X' # X /\ Top(t).num_failures >= 5]_vars

\* one thread has returned from an ArriveDirectly that set its flag, another from
\* one that did not
C27_Witness ==
    /\ FullReady
    /\ \E t, u \in Tids :
          /\ op[t] = "idle" /\ held[t] = 1
          /\ cont[t].use_snzi_tree_flag /\ ~cont[t].use_snzi_in_arrive
          /\ op[u] = "idle" /\ held[u] = 1
          /\ ~cont[u].use_snzi_tree_flag

AllFlags == [use_snzi_in_arrive |-> TRUE, use_snzi_in_depart |-> TRUE, use_snzi_tree_flag |-> TRUE]

\* thread t is inside a node's Arrive or Depart
InTree(t) == Len(stack[t]) > 0 /\ ~InDirect(t)

\* C28: a call of DepartDirectly is one step that subtracts one from the root
\* counter whatever the status, and sets use_snzi_in_arrive and
\* use_snzi_in_depart exactly when use_snzi_tree_flag is true; the two flags turn
\* true in no other step; so a thread is routed through the tree only with all
\* three flags set, after a DepartDirectly that found the flag which only an
\* ArriveDirectly with at least 5 failures sets.
C28_DepartDirectly ==
    /\ [](FullReady => \A t \in Tids : InTree(t) => cont[t] = AllFlags)
    /\ [][FullReady => \A t \in Tids :
            /\ (CallsDepart(t) /\ ~cont[t].use_snzi_in_depart) =>
                  /\ X' = [X EXCEPT ![0] = @ - 1]
                  /\ stack'[t] = << >> /\ op'[t] = "idle"
                  /\ cont'[t] = IF cont[t].use_snzi_tree_flag THEN AllFlags ELSE cont[t]
            /\ ((~cont[t].use_snzi_in_arrive /\ cont'[t].use_snzi_in_arrive)
                  \/ (~cont[t].use_snzi_in_depart /\ cont'[t].use_snzi_in_depart)) =>
                  /\ CallsDepart(t) /\ ~cont[t].use_snzi_in_depart
                  /\ cont[t].use_snzi_tree_flag
            /\ (CallsArrive(t) \/ CallsDepart(t)) /\ (InTree(t)' \/ surplus' # surplus) =>
                  cont[t] = AllFlags]_vars

\* the only Arrive so far met contention at the root, and the Depart that matched
\* it has promoted its thread to the tree
C28_Witness ==
    /\ FullReady /\ arrives = 1
    /\ \E t \in Tids : cont[t] = AllFlags /\ op[t] = "idle" /\ held[t] = 0

\* C29: in every reachable state of the full variant, every thread's status has
\* use_snzi_in_arrive = use_snzi_in_depart, and use_snzi_in_arrive only together
\* with use_snzi_tree_flag.
C29_StatusInvariant ==
    param.variant = "full" =>
        \A t \in Tids :
            /\ cont[t].use_snzi_in_arrive = cont[t].use_snzi_in_depart
            /\ cont[t].use_snzi_in_arrive => cont[t].use_snzi_tree_flag

\* the three stages of escalation side by side: a thread with no flag set, one
\* with use_snzi_tree_flag alone, one with all three
C29_Witness ==
    /\ FullReady
    /\ \E t, u, v \in Tids :
          /\ \A f \in ContFlags : ~cont[t][f]
          /\ cont[u].use_snzi_tree_flag /\ ~cont[u].use_snzi_in_arrive /\ ~cont[u].use_snzi_in_depart
          /\ cont[v] = AllFlags

-----------------------------------------------------------------------------
(* The full-contention variant under clients that alternate Arrive and Depart *)

\* the threads mapped to leaf n that hold an arrival and are routed through the tree
TreeHolders(n) ==
    {t \in Tids : t < total_threads /\ get_leaf_for_thread(t) = n
                  /\ held[t] = 1 /\ cont[t].use_snzi_in_depart}

\* the threads that hold an arrival and are routed to the root directly
DirectHolders == {t \in Tids : held[t] = 1 /\ ~cont[t].use_snzi_in_depart}

\* C30: full variant, every thread alternating Arrive and Depart on a status of
\* its own that starts all false.  An Arrive goes through the tree exactly when
\* use_snzi_in_arrive is set, the flag that routes the Depart equals it from that
\* call until the matching Depart is called, and that Depart goes through the
\* tree exactly when the Arrive did; no step lowers a counter that is 0 and no
\* counter wraps; the root counter is above zero whenever a thread holds an
\* arrival; at quiescence each leaf counts its tree-routed holders, the root
\* counts the direct holders and, on trees of height one, the leaves above zero;
\* with no arrival held every counter is 0.
C30_AlternatingFull ==
    /\ [](FullReady =>
            /\ \A t \in Tids : held[t] <= 1
            /\ \A t \in Tids :
                  /\ (op[t] = "arrive" /\ InDirect(t)) => ~cont[t].use_snzi_in_depart
                  /\ (op[t] = "arrive" /\ InTree(t)) => cont[t].use_snzi_in_depart
            /\ \A n \in Nodes : X[n] >= 0
            /\ (\E t \in Tids : held[t] > 0) => X[0] > 0
            /\ Quiescent =>
                  /\ \A n \in Leaves \ {0} : X[n] = Cardinality(TreeHolders(n))
                  /\ H_ = 0 => X[0] = SumHeld(Tids)
                  /\ H_ = 1 => X[0] = Cardinality(DirectHolders)
                                      + Cardinality({c \in Children(0) : X[c] > 0})
            /\ AllMatched => \A n \in Nodes : X[n] = 0)
    /\ [][FullReady => \A t \in Tids :
            /\ \A n \in Nodes : X'[n] < X[n] => X[n] > 0
            /\ CallsArrive(t) =>
                  /\ InDirect(t)' <=> ~cont[t].use_snzi_in_arrive
                  /\ cont'[t].use_snzi_in_depart = cont[t].use_snzi_in_arrive
            /\ ((op[t] = "arrive" \/ held[t] = 1) /\ ~CallsDepart(t)) =>
                  cont'[t].use_snzi_in_depart = cont[t].use_snzi_in_depart
            /\ CallsDepart(t) =>
                  IF cont[t].use_snzi_in_depart
                  THEN /\ get_leaf_for_thread(t) # 0 =>
                             /\ InTree(t)'
                             /\ X[get_leaf_for_thread(t)] > 0
                       /\ cont' = cont
                  ELSE stack'[t] = << >> /\ X' = [X EXCEPT ![0] = @ - 1]]_vars

\* after an escalation, one thread holds an arrival made through its leaf while
\* another holds one made at the root directly
C30_Witness ==
    /\ FullReady /\ Quiescent /\ H_ >= 1
    /\ \E t, u \in Tids :
          /\ held[t] = 1 /\ cont[t] = AllFlags /\ X[get_leaf_for_thread(t)] = 1
          /\ held[u] = 1 /\ ~cont[u].use_snzi_in_depart
          /\ X[0] = 2

-----------------------------------------------------------------------------
(* The announce flag *)

\* C31: semi and full node Arrive, on the branch oldx = 0 and pArrInv false.
\* With announce true the call re-reads the counter, at most DelayAmount = 16
\* times; a re-read that sees a value other than 0 sends it to the CAS with that
\* value, without a store to announce or an Arrive on the parent; after 16
\* re-reads of 0 it stores announce := true and issues the Arrive on the parent.
\* With announce false it does so at once, the store first.  A call that spins on
\* a node whose counter is 0 therefore always returns.
C31_AnnounceGate ==
    /\ [](Ready => \A t \in Tids : \A k \in Depth(t) :
            LET f == stack[t][k]
            IN  /\ f.pc \in {"A_ann", "A_spin", "A_store"} =>
                      HasAnnounce /\ f.oldx = 0 /\ ~f.pArrInv /\ k = Len(stack[t])
                /\ f.pc = "A_spin" => f.i \in 0 .. DelayAmount - 1
                /\ f.i \in 0 .. DelayAmount)
    /\ [][\A t \in Tids :
            /\ (At(t, "A_ann") /\ stack'[t] # stack[t]) =>
                  /\ X' = X /\ announce' = announce /\ surplus' = surplus
                  /\ Top(t)' = IF announce[Top(t).node]
                               THEN [Top(t) EXCEPT !.pc = "A_spin", !.i = 0]
                               ELSE [Top(t) EXCEPT !.pc = "A_store"]
            /\ (At(t, "A_spin") /\ stack'[t] # stack[t]) =>
                  /\ X' = X /\ announce' = announce /\ surplus' = surplus
                  /\ Top(t)'.oldx = X[Top(t).node]
                  /\ IF X[Top(t).node] # 0
                     THEN Top(t)'.pc = "A_cas" /\ ~Top(t)'.pArrInv
                     ELSE /\ Top(t)'.i = Top(t).i + 1
                          /\ Top(t)'.pc = IF Top(t).i + 1 < 16 THEN "A_spin" ELSE "A_store"
            /\ (At(t, "A_store") /\ stack'[t] # stack[t]) =>
                  /\ announce' = [announce EXCEPT ![Top(t).node] = TRUE]
                  /\ X' = X /\ surplus' = surplus
                  /\ Top(t)' = [Top(t) EXCEPT !.pc = "A_parr"]
            /\ (HasAnnounce /\ At(t, "A_parr")' /\ ~At(t, "A_parr")) =>
                  At(t, "A_store") /\ announce'[Top(t).node]]_vars
    /\ \A t \in Tids :
          (At(t, "A_spin") /\ X[Top(t).node] = 0) ~> (op[t] = "idle" /\ held[t] > 0)

\* an Arrive has re-read 0 sixteen times on a node whose announce flag another
\* Arrive has set, and goes on to propagate all the same
C31_Witness ==
    /\ Ready /\ HasAnnounce
    /\ \E t \in Tids :
          /\ At(t, "A_store") /\ Top(t).i = DelayAmount
          /\ announce[Top(t).node] /\ X[Top(t).node] = 0

\* C32: semi and full node Depart.  The call stores announce := false only in a
\* loop iteration that starts with oldx = 1; its CAS fails only when the counter
\* differs from oldx, and then oldx takes the counter's value, which is not 1; so
\* the iteration after one that stored does not store, and the call stores
\* again only after a later failed CAS has read 1 anew.
C32_NoRedundantStore ==
    /\ [](Ready => \A t \in Tids : \A k \in Depth(t) :
            stack[t][k].pc = "D_clear" => HasAnnounce /\ stack[t][k].oldx = 1)
    /\ [][HasAnnounce => \A t \in Tids :
            /\ (At(t, "D_clear") /\ stack'[t] # stack[t]) =>
                  /\ announce' = [announce EXCEPT ![Top(t).node] = FALSE]
                  /\ Top(t)' = [Top(t) EXCEPT !.pc = "D_cas"]
            /\ (At(t, "D_cas") /\ stack'[t] # stack[t] /\ X' = X) =>
                  /\ X[Top(t).node] # Top(t).oldx
                  /\ Top(t)'.oldx = X[Top(t).node]
                  /\ announce' = announce
                  /\ Top(t).oldx = 1 => Top(t)'.pc = "D_cas"
                  /\ Top(t)'.pc = "D_clear" <=> X[Top(t).node] = 1
            /\ (announce' # announce /\ stack'[t] # stack[t]) =>
                  At(t, "D_clear") \/ At(t, "A_store")]_vars

\* a Depart has stored announce := false for oldx = 1 and an Arrive has raised the
\* counter to 2 since, so its CAS is about to fail
C32_Witness ==
    /\ Ready /\ HasAnnounce
    /\ \E t \in Tids :
          /\ op[t] = "depart" /\ At(t, "D_cas")
          /\ Top(t).oldx = 1 /\ X[Top(t).node] = 2

-----------------------------------------------------------------------------
(* Counters between a read and the CAS that follows it *)

\* C33 as stated: whenever a CAS on a non-root node's counter succeeds, no CAS of
\* another thread has changed that counter since the read that gave this CAS its
\* oldx; the counter never leaves oldx and comes back to it in between.
C33_NoABA ==
    [][\A t \in Tids :
        (CasSucceeds(t, "A_cas") \/ CasSucceeds(t, "D_cas")) =>
            Top(t).ver = ver[Top(t).node]]_vars

-----------------------------------------------------------------------------
(* The backoff schedule *)

\* the place of call i among the backoff() calls since construction or the last reset()
RECURSIVE SinceReset(_)
SinceReset(i) ==
    IF i = 0 \/ calls[i].call = "reset" THEN 0 ELSE 1 + SinceReset(i - 1)

BackoffCalls == {i \in DOMAIN calls : calls[i].call = "backoff"}

\* C34 as stated: the delay doubles from 1 up to a cap of 2^16, so each of the
\* first 17 backoff() calls after construction or reset() spins, the k-th for
\* 2^(k-1) pause instructions, and none of them yields.
C34_DoublesToTwoPow16 ==
    \A i \in BackoffCalls :
        SinceReset(i) <= 17 =>
            ~calls[i].yielded /\ calls[i].pauses = 2 ^ (SinceReset(i) - 1)

\* C34: after construction or reset() the first five backoff() calls spin for 1,
\* 2, 4, 8 and 16 pause instructions, doubling tries each time; MAX_TRIES = 16 is
\* the cap on the delay itself; from the sixth call on, with tries = 32, every
\* call yields and leaves tries as it is; reset() sets tries to 1.
C34_BackoffSchedule ==
    /\ \A i \in BackoffCalls :
          IF SinceReset(i) <= 5
          THEN ~calls[i].yielded /\ calls[i].pauses = 2 ^ (SinceReset(i) - 1)
          ELSE calls[i].yielded /\ calls[i].pauses = 0
    /\ tries = IF SinceReset(Len(calls)) <= 5 THEN 2 ^ SinceReset(Len(calls)) ELSE 32
    /\ tries \in {1, 2, 4, 8, 16, 32}

\* six calls on a fresh object, the sixth of which yielded, then a reset
C34_Witness ==
    /\ Len(calls) = 7
    /\ \A i \in 1 .. 6 : calls[i].call = "backoff"
    /\ calls[5].pauses = 16 /\ calls[6].yielded
    /\ calls[7].call = "reset" /\ tries = 1

-----------------------------------------------------------------------------
(* Decrements *)

\* the step lowers the counter of node n
Decrements(n) == X'[n] < X[n]

\* C36: in the no- and semi-contention variants every step that lowers a counter
\* lowers one that is above zero, by exactly one; a Depart CAS on a non-root node
\* that succeeds has oldx above zero, and a step that lowers the root counter (the
\* root's fetch_sub) finds it above zero; so no counter goes from 0 to 2^64 - 1.
C36_NoUnderflow ==
    [][(Ready /\ NoOrSemi) =>
          /\ \A n \in Nodes :
                Decrements(n) => (X[n] > 0 /\ X'[n] = X[n] - 1)
          /\ \A t \in Tids :
                CasSucceeds(t, "D_cas") =>
                    (Top(t).oldx > 0 /\ X'[Top(t).node] = Top(t).oldx - 1)
          /\ \A n \in Nodes : X'[n] # -1]_vars

\* a Depart has taken a child of the root from 1 to 0 and is about to apply the
\* root's fetch_sub, the root counter being 1
C36_Witness ==
    /\ Ready /\ NoOrSemi
    /\ \E t \in Tids :
          /\ At(t, "D_prop")
          /\ parentOf[Top(t).node] = 0
          /\ X[Top(t).node] = 0
          /\ X[0] = 1

-----------------------------------------------------------------------------
(* The no-contention node calls, as a relation between call stacks *)

\* a call of no_contention_handling_snzi::node: where it is, its node and locals
no_Frame(pc, n, oldx, pArrInv) == [pc |-> pc, node |-> n, oldx |-> oldx, pArrInv |-> pArrInv]

\* node::Arrive about to read X into oldx: at  oldx = X.load()  after the call, or
\* at a compare_exchange_weak that fails
no_AtLoad(n, pArrInv) == no_Frame("A_load", n, 0, pArrInv)

\* oldx has taken the value x; then the test  if (!oldx && !pArrInv)
no_Loaded(n, pArrInv, x) ==
    no_Frame(IF x = 0 /\ ~pArrInv THEN "A_parr" ELSE "A_cas", n, x, pArrInv)

\* node::Arrive on node n has been entered: before or after its first load
no_Entered(n) == {no_AtLoad(n, FALSE), no_Loaded(n, FALSE, X[n])}

\* node::Depart on node n has been entered and has read oldx
no_Departing(n) == no_Frame("D_cas", n, X[n], FALSE)

no_SetTop(a, f) == [a EXCEPT ![Len(a)] = f]

\* the innermost call returns to a node Arrive that waits for its parent's Arrive
no_Return(a) ==
    LET rest == SubSeq(a, 1, Len(a) - 1)
    IN  IF Len(rest) = 0 THEN rest
        ELSE [rest EXCEPT ![Len(rest)] = [@ EXCEPT !.pArrInv = TRUE, !.pc = "A_cas"]]

\* what the client of thread t sees of the step that takes its stack from a to b
no_Events(t, a, b) ==
    IF Len(a) > 0 /\ Len(b) = 0
    THEN /\ op'[t] = "idle"
         /\ held'[t] = IF op[t] = "arrive" THEN held[t] + 1 ELSE held[t]
    ELSE op'[t] = op[t] /\ held'[t] = held[t]

\* Arrive(tid) and Depart(tid) of the facade are called
no_Call(t, b) ==
    /\ op[t] = "idle"
    /\ LET leaf == get_leaf_for_thread(t)
       IN  \/ /\ leaf = 0 /\ b = << >> /\ op'[t] = "idle"
              /\ \/ X' = [X EXCEPT ![0] = @ + 1] /\ held'[t] = held[t] + 1
                 \/ X' = [X EXCEPT ![0] = @ - 1] /\ held'[t] = held[t] - 1 /\ held[t] > 0
           \/ /\ leaf # 0 /\ X' = X
              /\ \/ /\ \E f \in no_Entered(leaf) : b = <<f>>
                    /\ op'[t] = "arrive" /\ held'[t] = held[t]
                 \/ /\ b = <<no_Departing(leaf)>> /\ held[t] > 0
                    /\ op'[t] = "depart" /\ held'[t] = held[t] - 1

\* one step of a node call of thread t, the innermost frame being f.  The weak
\* CAS of Arrive may fail whatever X holds: it fails in one step, oldx taking X's
\* value, or is first bound to fail and takes X's value in a later step
no_NodeStep(t, a, b) ==
    LET f == a[Len(a)]
        n == f.node
        p == parentOf[n]
    IN  \/ /\ f.pc = "A_load"
           /\ X' = X /\ b = no_SetTop(a, no_Loaded(n, f.pArrInv, X[n]))
        \/ /\ f.pc = "A_parr"
           /\ IF p = 0
              THEN /\ X' = [X EXCEPT ![0] = @ + 1]
                   /\ b = no_SetTop(a, [f EXCEPT !.pArrInv = TRUE, !.pc = "A_cas"])
              ELSE /\ X' = X
                   /\ \E g \in no_Entered(p) :
                         b = Append(no_SetTop(a, [f EXCEPT !.pc = "A_wait"]), g)
        \/ /\ f.pc = "A_cas"
           /\ \/ /\ X[n] = f.oldx /\ X' = [X EXCEPT ![n] = f.oldx + 1]
                 /\ b = IF f.pArrInv /\ f.oldx # 0
                        THEN no_SetTop(a, [f EXCEPT !.pc = "A_comp"])
                        ELSE no_Return(a)
              \/ /\ X' = X /\ b = no_SetTop(a, no_Loaded(n, f.pArrInv, X[n]))
              \/ /\ X' = X /\ b = no_SetTop(a, no_AtLoad(n, f.pArrInv))
        \/ /\ f.pc = "D_cas"
           /\ \/ /\ X[n] = f.oldx /\ X' = [X EXCEPT ![n] = f.oldx - 1]
                 /\ b = IF f.oldx = 1
                        THEN no_SetTop(a, [f EXCEPT !.pc = "D_prop"])
                        ELSE no_Return(a)
              \/ /\ X' = X /\ b = no_SetTop(a, [f EXCEPT !.oldx = X[n]])
        \/ /\ f.pc \in {"A_comp", "D_prop"}
           /\ IF p = 0
              THEN X' = [X EXCEPT ![0] = @ - 1] /\ b = no_Return(a)
              ELSE X' = X /\ b = no_SetTop(a, no_Departing(p))

\* thread t takes a step of the no-contention tree from stack a to stack b, or
\* none that shows
no_Move(t, a, b) ==
    \/ a = b /\ X' = X /\ op'[t] = op[t] /\ held'[t] = held[t]
    \/ Len(a) = 0 /\ no_Call(t, b)
    \/ Len(a) > 0 /\ no_NodeStep(t, a, b) /\ no_Events(t, a, b)

-----------------------------------------------------------------------------
(* The semi-contention tree seen without announce *)

\* the calls of the no-contention node that a call of the semi-contention node
\* stands for: one that has read announce or spins has still to read X; one that
\* has read oldx = 0 and not yet announce either propagates on this 0 or has
\* still to read X; one about to store announce is about to propagate or to CAS
Hidden(f) ==
    CASE f.pc = "A_ann"   -> {no_Loaded(f.node, FALSE, 0), no_AtLoad(f.node, FALSE)}
      [] f.pc = "A_spin"  -> {no_AtLoad(f.node, FALSE)}
      [] f.pc = "A_store" -> {no_Loaded(f.node, FALSE, 0)}
      [] f.pc = "D_clear" -> {no_Frame("D_cas", f.node, f.oldx, FALSE)}
      [] OTHER            -> {no_Frame(f.pc, f.node, f.oldx, f.pArrInv)}

\* the call stacks of the no-contention tree that thread t's stack stands for;
\* every frame under the innermost one waits for its parent's Arrive
HiddenStacks(t) ==
    IF Len(stack[t]) = 0 THEN {<< >>}
    ELSE LET under == [i \in 1 .. Len(stack[t]) - 1 |->
                          no_Frame(stack[t][i].pc, stack[t][i].node, stack[t][i].oldx,
                                   stack[t][i].pArrInv)]
         IN  {Append(under, f) : f \in Hidden(Top(t))}

SemiReady == Ready /\ param.variant = "semi"

\* the others' calls, and what their clients see, stay as they are
OthersStay(t) ==
    \A u \in Tids \ {t} : stack'[u] = stack[u] /\ op'[u] = op[u] /\ held'[u] = held[u]

\* C35: every step of the semi-contention tree, seen as a step on the counters,
\* the calls and returns of Arrive and Depart and the result of Query, is a step
\* of the no-contention tree of the same shape or changes none of them: whichever
\* no-contention call a thread's call stands for after the step, it stood for one
\* before the step from which the no-contention code gets there with the same
\* change of the counters and the same call or return; a Query returns what the
\* no-contention root returns.  So every behaviour of the semi-contention tree
\* is one of the no-contention tree, and its counters and query results are
\* among those the no-contention tree reaches.
C35_SemiRefinesNo ==
    [][SemiReady =>
          /\ qret' # qret => (qret' = IF X[0] # 0 THEN "true" ELSE "false")
          /\ \E t \in Tids :
                /\ OthersStay(t)
                /\ \A b \in HiddenStacks(t)' : \E a \in HiddenStacks(t) : no_Move(t, a, b)]_vars

\* a semi-contention Arrive that read oldx = 0 and found announce set is in its
\* spin loop while the counter is above zero: its next load ends the spin and it
\* goes to its CAS without an Arrive on the parent
C35_Witness ==
    /\ SemiReady
    /\ \E t \in Tids :
          /\ At(t, "A_spin")
          /\ X[Top(t).node] > 0

=============================================================================
